---- MODULE Spec2Model ----
(***************************************************************************)
(* Model of app1.py, the KFC sales dashboard.  The script is a Streamlit   *)
(* page: it is executed top to bottom once when a session starts and once  *)
(* more after every widget change.  One execution is one action.           *)
(*                                                                         *)
(* A data frame is a sequence of rows, a row is a record keyed by column   *)
(* name.  Marketing_Spend is a real column: a value v of it is held as the *)
(* integer v * Denom, so that values that are not whole numbers exist.     *)
(* Year, Month, Branch_ID, Sales and Customers hold integers.              *)
(*                                                                         *)
(* Before the first execution no name of the script is bound: a frame or   *)
(* range is then <<>>, a selection {}, a slider input 0, the KPI values    *)
(* NoKpi, the estimator Unfitted and the prediction NoPrediction; runs = 0 *)
(* tells that state from an execution's results.                           *)
(***************************************************************************)
EXTENDS Integers, Sequences, FiniteSets, TLC

VARIABLES df, country_filter, year_range, month_filter, marketing_range,
          customer_range, cust_input, marketing_input, filtered_df, kpi,
          yearly_sales, country_sales, branch_sales, model, predicted_sales,
          runs, fit_calls, error

vars == <<df, country_filter, year_range, month_filter, marketing_range,
          customer_range, cust_input, marketing_input, filtered_df, kpi,
          yearly_sales, country_sales, branch_sales, model, predicted_sales,
          runs, fit_calls, error>>

widgets == <<country_filter, year_range, month_filter, marketing_range,
             customer_range, cust_input, marketing_input>>

outputs == <<filtered_df, kpi, yearly_sales, country_sales, branch_sales,
             model, predicted_sales>>

(* ------------------------------ bounds -------------------------------- *)

\* rows of a loaded dataset (script specification)
MaxRows == 3
\* rows of a dataset handed to the filter expression alone
ApplyRows == 2
\* executions of the script in one session
MaxRuns == 2
\* resolution of the real column Marketing_Spend: values are k / Denom
Denom == 2

(* --------------------------- program constants ------------------------ *)

\* .head(15)
TopK == 15
\* st.slider("Expected Number of Customers", 1500, 6000, 3000)
CustInputMin == 1500
CustInputMax == 6000
CustInputDefault == 3000
\* st.slider("Marketing Spend ($)", 5000, 30000, 15000)
MarketingInputMin == 5000
MarketingInputMax == 30000
MarketingInputDefault == 15000

\* no exception raised
None == "None"

\* A float is held as the rational num / den.  0/0 is NaN and 1/0 is inf, as
\* float division produces them.
NaN == [num |-> 0, den |-> 0]
Inf == [num |-> 1, den |-> 0]

(* ------------------------------ datasets ------------------------------ *)

\* The rows a dataset file may hold.  Marketing_Spend is in units of 1/Denom.
Row(c, y, m, b, s, n, ms) ==
    [Country |-> c, Year |-> y, Month |-> m, Branch_ID |-> b, Sales |-> s,
     Customers |-> n, Marketing_Spend |-> ms]

RowPool ==
    { Row("US", 2019, 1, 1, 10, 2, 2),
      Row("US", 2020, 2, 1, 20, 3, 3),
      Row("FR", 2020, 1, 2, 10, 0, 4),
      Row("FR", 2019, 2, 2, 20, 2, 5),
      Row("US", 2019, 1, 3, 30, 2, 3),
      Row("FR", 2020, 2, 3, 0, 0, 2) }

SeqsUpTo(S, n) == UNION { [1..k -> S] : k \in 0..n }

\* alphabetical order of the country names, as sorted() and groupby order them
CountryOrd(c) == IF c = "FR" THEN 1 ELSE 2

(* --------------------------- pandas helpers --------------------------- *)

Column(frame, col) == [i \in DOMAIN frame |-> frame[i][col]]

\* Series.unique(): the distinct values
Unique(frame, col) == { frame[i][col] : i \in DOMAIN frame }

RECURSIVE SumSeq(_)
SumSeq(s) == IF s = <<>> THEN 0 ELSE Head(s) + SumSeq(Tail(s))

\* Series.sum(); 0 on an empty series
Sum(frame, col) == SumSeq(Column(frame, col))

SetMin(S) == CHOOSE x \in S : \A y \in S : x <= y
SetMax(S) == CHOOSE x \in S : \A y \in S : y <= x

\* Series.min() / Series.max(); NaN on an empty series
ColMin(frame, col) == IF frame = <<>> THEN NaN ELSE SetMin(Unique(frame, col))
ColMax(frame, col) == IF frame = <<>> THEN NaN ELSE SetMax(Unique(frame, col))

\* int(x) of the real column: truncation toward zero of x / Denom
IntOfReal(x) == IF x >= 0 THEN x \div Denom ELSE -((-x) \div Denom)

\* Series.between(lo, hi, inclusive="neither")
BetweenNeither(x, lo, hi) == lo < x /\ x < hi

\* Series.between(lo, hi): inclusive on both sides
Between(x, lo, hi) == lo <= x /\ x <= hi

\* Series.between(lo, hi) on the real column, lo and hi whole numbers
BetweenReal(x, lo, hi) == lo * Denom <= x /\ x <= hi * Denom

\* Series.isin(values)
IsIn(x, values) == x \in values

\* Series.mean() of the real column; NaN on an empty series, else the
\* rational num / den
Mean(frame, col) ==
    IF frame = <<>> THEN NaN
    ELSE [num |-> Sum(frame, col), den |-> Len(frame) * Denom]

\* Series.nunique()
NUnique(frame, col) == Cardinality(Unique(frame, col))

\* Series / Series, element by element: float division, x/0 is inf and
\* 0/0 is NaN, no exception
Divide(s, c) ==
    IF c = 0 THEN (IF s = 0 THEN NaN ELSE Inf) ELSE [num |-> s, den |-> c]

RECURSIVE SortAsc(_)
SortAsc(S) ==
    IF S = {} THEN <<>>
    ELSE LET m == SetMin(S) IN <<m>> \o SortAsc(S \ {m})

RECURSIVE SortCountries(_)
SortCountries(S) ==
    IF S = {} THEN <<>>
    ELSE LET m == CHOOSE x \in S : \A y \in S : CountryOrd(x) <= CountryOrd(y)
         IN <<m>> \o SortCountries(S \ {m})

\* order of first appearance of the values of a column
RECURSIVE FirstSeen(_, _)
FirstSeen(frame, col) ==
    IF frame = <<>> THEN <<>>
    ELSE LET rest == FirstSeen(SubSeq(frame, 1, Len(frame) - 1), col)
             v == frame[Len(frame)][col]
         IN IF \E i \in DOMAIN rest : rest[i] = v THEN rest
            ELSE Append(rest, v)

\* the summed Sales of the rows whose column col holds k
GroupSum(frame, col, k) ==
    SumSeq(Column(SelectSeq(frame, LAMBDA r : r[col] = k), "Sales"))

\* groupby(col)["Sales"].sum() over the group keys in the order given
GroupBySum(frame, col, keys) ==
    [i \in DOMAIN keys |->
        (col :> keys[i]) @@ ("Sales" :> GroupSum(frame, col, keys[i]))]

Range(s) == { s[i] : i \in DOMAIN s }

Perms(s) ==
    { p \in [DOMAIN s -> Range(s)] : \A e \in Range(s) : \E i \in DOMAIN p : p[i] = e }

\* sort_values("Sales"), default kind="quicksort": not a stable sort, so the
\* order of rows with equal Sales is whatever the build's sort produces.
\* The result is one of the orderings that are sorted by Sales.
SortValuesAsc(s) ==
    { p \in Perms(s) : \A i \in 1..(Len(p) - 1) : p[i].Sales <= p[i + 1].Sales }

SortValuesDesc(s) ==
    { p \in Perms(s) : \A i \in 1..(Len(p) - 1) : p[i].Sales >= p[i + 1].Sales }

\* .head(n)
HeadN(s, n) == SubSeq(s, 1, IF Len(s) < n THEN Len(s) ELSE n)

(* ------------------------- the script's steps ------------------------- *)

\* lines 40-44 and 55-59: the multiselect's options, which are its default
CountryOptions(frame) == Unique(frame, "Country")
MonthOptions(frame) == Unique(frame, "Month")

\* lines 47-52, 62-70, 73-81: the sliders' <<min_value, max_value>>, which
\* is also their default value
YearBounds(frame) == <<ColMin(frame, "Year"), ColMax(frame, "Year")>>

MarketingBounds(frame) ==
    <<IntOfReal(ColMin(frame, "Marketing_Spend")),
      IntOfReal(ColMax(frame, "Marketing_Spend"))>>

CustomerBounds(frame) == <<ColMin(frame, "Customers"), ColMax(frame, "Customers")>>

\* a range slider hands back an ordered pair inside its bounds
SliderValues(b) == { <<lo, hi>> \in (b[1]..b[2]) \X (b[1]..b[2]) : lo <= hi }

\* lines 85-89: the row mask
Mask(r, cf, yr, mf, mr, cr) ==
    /\ IsIn(r.Country, cf)
    /\ Between(r.Year, yr[1], yr[2])
    /\ IsIn(r.Month, mf)
    /\ BetweenReal(r.Marketing_Spend, mr[1], mr[2])
    /\ Between(r.Customers, cr[1], cr[2])

\* lines 84-90: filtered_df = df[mask], a new frame
Apply(frame, cf, yr, mf, mr, cr) ==
    SelectSeq(frame, LAMBDA r : Mask(r, cf, yr, mf, mr, cr))

\* lines 99-102: the four KPI values handed to the metric widgets
Summarize(view) ==
    [total_sales |-> Sum(view, "Sales"),
     total_customers |-> Sum(view, "Customers"),
     mean_marketing_spend |-> Mean(view, "Marketing_Spend"),
     distinct_branch_count |-> NUnique(view, "Branch_ID")]

\* groupby(sort=False): the group keys in their order of first appearance
YearKeysUnsorted(view) == FirstSeen(view, "Year")

\* groupby sorts the group keys ascending (sort=True is the default)
YearKeys(view) == SortAsc(Unique(view, "Year"))
CountryKeys(view) == SortCountries(Unique(view, "Country"))
BranchKeys(view) == SortAsc(Unique(view, "Branch_ID"))

\* line 119
YearlySales(view) == GroupBySum(view, "Year", YearKeys(view))

\* lines 140-143: the possible results
CountrySales(view) == SortValuesAsc(GroupBySum(view, "Country", CountryKeys(view)))

\* lines 178-180: the view with its derived column
WithSalesPerCustomer(view) ==
    [i \in DOMAIN view |->
        view[i] @@ ("Sales_per_Customer" :> Divide(view[i].Sales, view[i].Customers))]

\* lines 200-204: the possible results
BranchSales(view) ==
    { HeadN(p, TopK) :
        p \in SortValuesDesc(GroupBySum(view, "Branch_ID", BranchKeys(view))) }

\* X = filtered_df[[...]], y = filtered_df["Sales"]
FitInputFiltered(frame, view) ==
    [X |-> [i \in DOMAIN view |-> <<view[i].Customers, view[i].Marketing_Spend>>],
     y |-> Column(view, "Sales")]

\* lines 250-251: the training data
FitInput(frame, view) ==
    [X |-> [i \in DOMAIN frame |-> <<frame[i].Customers, frame[i].Marketing_Spend>>],
     y |-> Column(frame, "Sales")]

\* lines 253-254: LinearRegression().fit(X, y).  The least-squares solution
\* is a function of the training data, and the estimator is held as that
\* data; fit raises only on zero samples, which the script never reaches.
Fit(train) == [fitted_on |-> train]

\* line 259
Predict(m, c, ms) == [by |-> m, at |-> <<c, ms>>]

(* ------------------------------ the script ---------------------------- *)

\* the metric widgets before anything is shown
NoKpi ==
    [total_sales |-> 0, total_customers |-> 0, mean_marketing_spend |-> NaN,
     distinct_branch_count |-> 0]

\* line 253: LinearRegression() before fit
Unfitted == [fitted_on |-> [X |-> <<>>, y |-> <<>>]]

NoPrediction == [by |-> Unfitted, at |-> <<>>]

\* nothing of the script has run
Unbound ==
    /\ country_filter = {} /\ year_range = <<>> /\ month_filter = {}
    /\ marketing_range = <<>> /\ customer_range = <<>>
    /\ cust_input = 0 /\ marketing_input = 0
    /\ filtered_df = <<>> /\ kpi = NoKpi /\ yearly_sales = <<>>
    /\ country_sales = <<>> /\ branch_sales = <<>>
    /\ model = Unfitted /\ predicted_sales = NoPrediction
    /\ runs = 0 /\ fit_calls = 0 /\ error = None

Init ==
    /\ df \in SeqsUpTo(RowPool, MaxRows)
    /\ Unbound

\* One execution of the script, lines 32-261, with the widgets holding the
\* given values.  load_data() hands back the cached table; filtered_df is a
\* new frame, so the column assignment of line 178 lands on it alone.
RunScript(cf, yr, mf, mr, cr, ci, mi) ==
    LET view == Apply(df, cf, yr, mf, mr, cr) IN
    /\ country_filter' = cf /\ year_range' = yr /\ month_filter' = mf
    /\ marketing_range' = mr /\ customer_range' = cr
    /\ cust_input' = ci /\ marketing_input' = mi
    /\ kpi' = Summarize(view)
    /\ yearly_sales' = YearlySales(view)
    /\ country_sales' \in CountrySales(view)
    /\ filtered_df' = WithSalesPerCustomer(view)
    /\ branch_sales' \in BranchSales(WithSalesPerCustomer(view))
    /\ model' = Fit(FitInput(df, view))
    /\ fit_calls' = fit_calls + 1
    /\ predicted_sales' = Predict(Fit(FitInput(df, view)), ci, mi)
    /\ runs' = runs + 1
    /\ error' = None
    /\ df' = df

\* A session opens: the first execution, every widget at its default.  On an
\* empty table int(df["Year"].min()) of line 49 is int(NaN), a ValueError,
\* and the execution ends there.
Start ==
    /\ runs = 0
    /\ IF df = <<>>
       THEN /\ country_filter' = {}
            /\ error' = "ValueError"
            /\ runs' = runs + 1
            /\ UNCHANGED <<df, year_range, month_filter, marketing_range,
                           customer_range, cust_input, marketing_input,
                           outputs, fit_calls>>
       ELSE RunScript(CountryOptions(df), YearBounds(df), MonthOptions(df),
                      MarketingBounds(df), CustomerBounds(df),
                      CustInputDefault, MarketingInputDefault)

\* a widget can be moved once the page has rendered it
Rendered == runs > 0 /\ runs < MaxRuns /\ error = None

SelectCountries ==
    /\ Rendered
    /\ \E cf \in SUBSET CountryOptions(df) :
          /\ cf # country_filter
          /\ RunScript(cf, year_range, month_filter, marketing_range,
                       customer_range, cust_input, marketing_input)

SlideYears ==
    /\ Rendered
    /\ \E yr \in SliderValues(YearBounds(df)) :
          /\ yr # year_range
          /\ RunScript(country_filter, yr, month_filter, marketing_range,
                       customer_range, cust_input, marketing_input)

SelectMonths ==
    /\ Rendered
    /\ \E mf \in SUBSET MonthOptions(df) :
          /\ mf # month_filter
          /\ RunScript(country_filter, year_range, mf, marketing_range,
                       customer_range, cust_input, marketing_input)

SlideMarketing ==
    /\ Rendered
    /\ \E mr \in SliderValues(MarketingBounds(df)) :
          /\ mr # marketing_range
          /\ RunScript(country_filter, year_range, month_filter, mr,
                       customer_range, cust_input, marketing_input)

SlideCustomers ==
    /\ Rendered
    /\ \E cr \in SliderValues(CustomerBounds(df)) :
          /\ cr # customer_range
          /\ RunScript(country_filter, year_range, month_filter,
                       marketing_range, cr, cust_input, marketing_input)

CustInputs == {CustInputMin, CustInputDefault, CustInputMax}
MarketingInputs == {MarketingInputMin, MarketingInputDefault, MarketingInputMax}

SlideCustInput ==
    /\ Rendered
    /\ \E ci \in CustInputs :
          /\ ci # cust_input
          /\ RunScript(country_filter, year_range, month_filter,
                       marketing_range, customer_range, ci, marketing_input)

SlideMarketingInput ==
    /\ Rendered
    /\ \E mi \in MarketingInputs :
          /\ mi # marketing_input
          /\ RunScript(country_filter, year_range, month_filter,
                       marketing_range, customer_range, cust_input, mi)

Next ==
    \/ Start
    \/ SelectCountries
    \/ SlideYears
    \/ SelectMonths
    \/ SlideMarketing
    \/ SlideCustomers
    \/ SlideCustInput
    \/ SlideMarketingInput

Spec == Init /\ [][Next]_vars

(* ---------------- the filter expression, on any criteria -------------- *)

YearVals == { r.Year : r \in RowPool }
MarketingVals == { IntOfReal(r.Marketing_Spend) : r \in RowPool }
CustomerVals == { r.Customers : r \in RowPool }

InitApply ==
    /\ df \in SeqsUpTo(RowPool, ApplyRows)
    /\ Unbound

\* lines 84-90 evaluated once on criteria of any shape, ill-ordered ranges
\* and values absent from the table included
ApplyCall ==
    /\ runs = 0
    /\ runs' = runs + 1
    /\ \E cf \in SUBSET { r.Country : r \in RowPool },
          yr \in YearVals \X YearVals,
          mf \in SUBSET { r.Month : r \in RowPool },
          mr \in MarketingVals \X MarketingVals,
          cr \in CustomerVals \X CustomerVals :
          /\ country_filter' = cf /\ year_range' = yr /\ month_filter' = mf
          /\ marketing_range' = mr /\ customer_range' = cr
          /\ filtered_df' = Apply(df, cf, yr, mf, mr, cr)
    /\ UNCHANGED <<df, cust_input, marketing_input, kpi, yearly_sales,
                   country_sales, branch_sales, model, predicted_sales,
                   fit_calls, error>>

NextApply == ApplyCall

SpecApply == InitApply /\ [][NextApply]_vars

(* ------------------------------- claims ------------------------------- *)

\* an execution has finished and left its outputs
Ran == runs > 0 /\ error = None

Count(frame, r) == Cardinality({ i \in DOMAIN frame : frame[i] = r })

BaseColumns ==
    {"Country", "Year", "Month", "Branch_ID", "Sales", "Customers", "Marketing_Spend"}

\* a row without its derived column
Base(r) == [c \in BaseColumns |-> r[c]]

\* the criteria's predicates on a row, written out
Satisfies(r) ==
    /\ r.Country \in country_filter
    /\ year_range[1] <= r.Year /\ r.Year <= year_range[2]
    /\ r.Month \in month_filter
    /\ marketing_range[1] * Denom <= r.Marketing_Spend
    /\ r.Marketing_Spend <= marketing_range[2] * Denom
    /\ customer_range[1] <= r.Customers /\ r.Customers <= customer_range[2]

\* C1: the filtered view holds exactly the records of the dataset that
\* satisfy every predicate of the criteria (country in the set, year, marketing
\* spend and customers inside their inclusive ranges, month in the set), each
\* as often as the dataset holds it and in the dataset's order.
C1_ApplySoundComplete ==
    Ran =>
        /\ \A r \in RowPool :
              Count(filtered_df, r) = IF Satisfies(r) THEN Count(df, r) ELSE 0
        /\ \E f \in [DOMAIN filtered_df -> DOMAIN df] :
              /\ \A i \in DOMAIN filtered_df : df[f[i]] = filtered_df[i]
              /\ \A i, j \in DOMAIN filtered_df : i < j => f[i] < f[j]

\* C1 witness: a call that keeps one record sitting on an inclusive bound of
\* every range and drops another
C1_Witness ==
    /\ Ran
    /\ Len(filtered_df) = 1 /\ Len(df) = 2
    /\ filtered_df[1].Year = year_range[2]
    /\ filtered_df[1].Customers = customer_range[1]
    /\ filtered_df[1].Marketing_Spend = marketing_range[1] * Denom
    /\ year_range[1] < year_range[2]

\* C2: with every widget at its default the filtered view is the whole dataset.
C2_IdentityUnderDefault ==
    (runs = 1 /\ error = None) =>
        /\ Len(filtered_df) = Len(df)
        /\ \A i \in DOMAIN df : Base(filtered_df[i]) = df[i]

IllOrdered ==
    \/ year_range[1] > year_range[2]
    \/ marketing_range[1] > marketing_range[2]
    \/ customer_range[1] > customer_range[2]

C4_EmptyViewSummary ==
    (Ran /\ Len(filtered_df) = 0) =>
        /\ kpi.total_sales = 0
        /\ kpi.total_customers = 0
        /\ kpi.distinct_branch_count = 0
        /\ kpi.mean_marketing_spend # NaN
        /\ yearly_sales = <<>>
        /\ country_sales = <<>>
        /\ branch_sales = <<>>

ViewBranches == { filtered_df[i].Branch_ID : i \in DOMAIN filtered_df }

BranchTotal(b) ==
    SumSeq(Column(SelectSeq(filtered_df, LAMBDA r : r.Branch_ID = b), "Sales"))

\* C5: the top-branch sequence has at most TopK entries, one per branch with
\* that branch's summed sales, holds the branches of greatest total, descends
\* by total, and puts the smaller branch identifier first among equal totals.
C5_TopBranchesTieBreak ==
    Ran =>
        /\ Len(branch_sales) <= TopK
        /\ \A i \in DOMAIN branch_sales :
              /\ branch_sales[i].Branch_ID \in ViewBranches
              /\ branch_sales[i].Sales = BranchTotal(branch_sales[i].Branch_ID)
        /\ \A b \in ViewBranches :
              (\E i \in DOMAIN branch_sales : branch_sales[i].Branch_ID = b)
              \/ (/\ Len(branch_sales) = TopK
                  /\ \A i \in DOMAIN branch_sales :
                        branch_sales[i].Sales >= BranchTotal(b))
        /\ \A i, j \in DOMAIN branch_sales :
              i < j =>
                \/ branch_sales[i].Sales > branch_sales[j].Sales
                \/ /\ branch_sales[i].Sales = branch_sales[j].Sales
                   /\ branch_sales[i].Branch_ID < branch_sales[j].Branch_ID

\* C6: a fit called on a dataset of fewer than 3 records fails with
\* InsufficientData, and neither a model nor a prediction exists.
C6_FitNeedsThreeRecords ==
    (fit_calls > 0 /\ Len(df) < 3) =>
        /\ error = "InsufficientData"
        /\ model = Unfitted
        /\ predicted_sales = NoPrediction

\* C7: over one session on one loaded dataset the model is fitted at most once.
C7_FitAtMostOnce == fit_calls <= 1

\* C8: a row of the view with zero customers has its sales_per_customer marked
\* missing, or the execution reports a DataIntegrityViolation; the value is
\* never an unflagged inf or NaN.
C8_ZeroCustomersFlagged ==
    Ran =>
        \A i \in DOMAIN filtered_df :
            filtered_df[i].Customers = 0 =>
                \/ error = "DataIntegrityViolation"
                \/ filtered_df[i].Sales_per_Customer \notin {Inf, NaN}

ViewYears == { filtered_df[i].Year : i \in DOMAIN filtered_df }

RECURSIVE SalesOver(_)
SalesOver(I) ==
    IF I = {} THEN 0
    ELSE LET i == CHOOSE x \in I : TRUE IN filtered_df[i].Sales + SalesOver(I \ {i})

\* C9: the by-year sequence has exactly one entry per year present in the
\* view, carrying the summed sales of the view's records of that year, in
\* strictly ascending order of year.
C9_YearlySalesAscending ==
    Ran =>
        /\ { yearly_sales[i].Year : i \in DOMAIN yearly_sales } = ViewYears
        /\ Len(yearly_sales) = Cardinality(ViewYears)
        /\ \A i \in DOMAIN yearly_sales :
              yearly_sales[i].Sales =
                SalesOver({ k \in DOMAIN filtered_df :
                              filtered_df[k].Year = yearly_sales[i].Year })
        /\ \A i, j \in DOMAIN yearly_sales :
              i < j => yearly_sales[i].Year < yearly_sales[j].Year

\* C9 witness: a view whose first record is of a later year than its second,
\* with two records summed into one year
C9_Witness ==
    /\ Ran
    /\ Len(filtered_df) = 3 /\ Len(yearly_sales) = 2
    /\ filtered_df[1].Year > filtered_df[2].Year
    /\ \E i \in DOMAIN yearly_sales : yearly_sales[i].Sales = 30

\* the (Customers, Marketing_Spend) pairs and the Sales of every loaded record
FullTraining ==
    [X |-> [i \in DOMAIN df |-> <<df[i].Customers, df[i].Marketing_Spend>>],
     y |-> [i \in DOMAIN df |-> df[i].Sales]]

\* C10: no execution changes the loaded dataset: it keeps its records and its
\* columns (the derived column is on the filtered view only), and the model is
\* fitted on every loaded record whatever the filters are.
C10_DatasetNeverMutated ==
    [][/\ df' = df
       /\ \A i \in DOMAIN df' : DOMAIN df'[i] = BaseColumns
       /\ Ran' => model'.fitted_on = FullTraining']_vars

\* C10 witness: an execution whose filters drop a record, so that the view with
\* its derived column and the dataset the model is fitted on differ
C10_Witness ==
    /\ runs = 2 /\ Ran
    /\ Len(filtered_df) >= 1 /\ Len(filtered_df) < Len(df)
    /\ \A i \in DOMAIN filtered_df :
          DOMAIN filtered_df[i] = BaseColumns \cup {"Sales_per_Customer"}

====
